---------------------------- MODULE Spec2Model ----------------------------
(***************************************************************************)
(* Path MTU discovery of plugins/modules/junos_pmtu.py: main() validates   *)
(* its arguments, sends one baseline ping (DF unset), then runs the        *)
(* step-halving search with DF set and reports inet_mtu.                   *)
(*                                                                         *)
(* One behaviour of the model is one run of main().  The inputs (max_size, *)
(* max_range) are drawn in Init; the packet loss each ping reports is      *)
(* drawn by the action that issues the ping.                               *)
(***************************************************************************)
EXTENDS Integers, Sequences, FiniteSets, TLC

VARIABLES
    params,         \* module.params: max_size, max_range, dest
    net,            \* the path: any outcome, or monotone with a threshold
    pc,             \* position in main(): start, baseline, search, result, exit
    results,        \* the results dict of main() (line 285); <<>> before it exists
    test_size,      \* main's local test_size
    step,           \* main's local step
    min_test_size,  \* main's local min_test_size
    probes,         \* every run_ping call so far: payload size, df_bit, loss,
                    \* and whether the output held a packet-loss summary line
    output          \* what exit_json / fail_json emitted; <<>> while running

vars == <<params, net, pc, results, test_size, step, min_test_size, probes, output>>

-----------------------------------------------------------------------------
(* Program constants, main() lines 245-252.                                *)

INET_MIN_MTU_SIZE == 68
INET_MAX_MTU_SIZE == 65496
INET_HEADER_SIZE == 20
ICMP_HEADER_SIZE == 8
INET_AND_ICMP_HEADER_SIZE == INET_HEADER_SIZE + ICMP_HEADER_SIZE

\* range(1, 17) of line 252 ends at exponent 16
MaxChoiceExp == 16
MAX_SIZE_CHOICES == {0} \cup {2^x : x \in 1..MaxChoiceExp}

\* argument_spec default of max_size / max_range are not used: the inputs are drawn.

-----------------------------------------------------------------------------
(* Bounds of the model.                                                    *)

\* max_size is drawn from INET_MIN_MTU_SIZE-2 .. INET_MIN_MTU_SIZE+MaxSizeSpan
MaxSizeSpan == 20
\* max_range is drawn from 0, 2, 4, ..., 2^MaxRangeExp (and two invalid values)
MaxRangeExp == 5

MaxSizeInputs ==
    ((INET_MIN_MTU_SIZE - 2)..(INET_MIN_MTU_SIZE + MaxSizeSpan))
        \cup {INET_MAX_MTU_SIZE, INET_MAX_MTU_SIZE + 1}

MaxRangeInputs == {0} \cup {2^x : x \in 1..MaxRangeExp} \cup {3, 300}

\* packet loss percentages a ping may report
Losses == {0, 80, 100}

\* thresholds of a monotone path
MtuInputs ==
    ((INET_MIN_MTU_SIZE - 3)..(INET_MIN_MTU_SIZE + MaxSizeSpan + 2))
        \cup {INET_MAX_MTU_SIZE - 1, INET_MAX_MTU_SIZE}

-----------------------------------------------------------------------------
(* Dictionaries.                                                           *)

\* dict.get(k, dflt)
Get(d, k, dflt) == IF k \in DOMAIN d THEN d[k] ELSE dflt

\* AnsibleModule.fail_json(**kwargs): the kwargs with failed forced to True
fail_json(kwargs) == [k \in DOMAIN kwargs \cup {"failed"} |->
                         IF k = "failed" THEN TRUE ELSE kwargs[k]]

\* AnsibleModule.exit_json(**kwargs): the kwargs as they are
exit_json(kwargs) == kwargs

-----------------------------------------------------------------------------
(* Pieces of main().  Each is preceded by the faulty variants of it that   *)
(* the properties below are expected to tell apart from the code.          *)

\* AnsibleModule(argument_spec): max_range must be one of the choices
ValidMaxRange(max_range) == max_range \in MAX_SIZE_CHOICES

InvalidMaxSizeNoUpper(max_size) == max_size < INET_MIN_MTU_SIZE
\* line 279
InvalidMaxSize(max_size) ==
    max_size < INET_MIN_MTU_SIZE \/ max_size > INET_MAX_MTU_SIZE

BaselineFailedNever(loss) == loss > 100
\* line 290
BaselineFailed(loss) == loss = 100

\* lines 296-298
MinTestSize(max_size, max_range) ==
    LET m == max_size - (max_range - 1)
    IN  IF m < INET_MIN_MTU_SIZE THEN INET_MIN_MTU_SIZE ELSE m

ClampNoUpper(t, max_size) ==
    IF t < INET_MIN_MTU_SIZE THEN INET_MIN_MTU_SIZE ELSE t
\* lines 301-304
Clamp(t, max_size) ==
    IF t < INET_MIN_MTU_SIZE THEN INET_MIN_MTU_SIZE
    ELSE IF t > max_size THEN max_size
    ELSE t

HalveStepDecrement(s) == IF s >= 2 THEN s - 1 ELSE 0
HalveStepOffByOne(s) == IF s > 2 THEN s \div 2 ELSE 0
\* line 306
HalveStep(s) == IF s >= 2 THEN s \div 2 ELSE 0

PayloadSizeNoHeader(packet_size) == packet_size
\* lines 287, 307: the payload size handed to run_ping
PayloadSize(packet_size) == packet_size - INET_AND_ICMP_HEADER_SIZE

ReachableInclusive(loss) == loss <= 100
ReachableOnlyLossless(loss) == loss = 0
\* lines 311, 315
Reachable(loss) == loss < 100

StopAtMaxNever(loss, t, max_size) == FALSE
\* line 311
StopAtMax(loss, t, max_size) == Reachable(loss) /\ t = max_size

IncreaseDownward(t, s) == t - s
\* line 318
Increase(t, s) == t + s

DecreaseUpward(t, s) == t + s
\* line 320
Decrease(t, s) == t - s

-----------------------------------------------------------------------------
(* Messages: the f-string's text and the values formatted into it.         *)

MsgMaxSize(max_size) ==
    [text |-> "The value of the max_size option must be between",
     args |-> <<max_size, INET_MIN_MTU_SIZE, INET_MAX_MTU_SIZE>>]

MsgMaxRange(max_range) ==
    [text |-> "value of max_range must be one of", args |-> <<max_range>>]

MsgConnectivity(dest) ==
    [text |-> "Basic connectivity failed.", args |-> <<dest>>]

MsgTooSmall(dest, mts, max_size, max_range) ==
    [text |-> "The MTU of the path is less than the minimum tested size",
     args |-> <<dest, mts, max_size, max_range>>]

-----------------------------------------------------------------------------
(* The path.                                                               *)

\* the losses run_ping can report for a ping of this payload size and DF bit
ProbeOutcomes(size, df_bit) ==
    IF net.monotone
    THEN IF ~df_bit \/ size + INET_AND_ICMP_HEADER_SIZE <= net.mtu
         THEN {l \in Losses : l < 100}
         ELSE {100}
    ELSE Losses

\* lines 359-367: what the scan of the ping's output can leave in rate_info,
\* <<loss>> for a summary line with that loss and <<>> for None (no line
\* starts with "{count} packets transmitted"); an output without the line
\* is one in which nothing got through
PingOutputs(size, df_bit) ==
    {<<l>> : l \in ProbeOutcomes(size, df_bit)}
        \cup (IF 100 \in ProbeOutcomes(size, df_bit) THEN {<<>>} ELSE {})

\* junos_ping.parse_rate (called at line 376): the pkt_loss of the summary
\* line; without a line the loss is 100
parse_rate(rate_info) == IF rate_info = <<>> THEN 100 ELSE rate_info[1]

\* run_ping(module, params, size, df_bit): the call as recorded in probes,
\* with results["packet_loss"] of line 377
run_ping(size, df_bit, rate_info) ==
    [size |-> size, df_bit |-> df_bit, loss |-> parse_rate(rate_info),
     rate_line |-> rate_info # <<>>]

-----------------------------------------------------------------------------
(* Initial states.                                                         *)

InitRun ==
    /\ params \in [max_size : MaxSizeInputs, max_range : MaxRangeInputs,
                   dest : {"192.0.2.1"}]
    /\ pc = "start"
    /\ results = <<>>
    /\ test_size = 0
    /\ step = 0
    /\ min_test_size = 0
    /\ probes = <<>>
    /\ output = <<>>

Init == InitRun /\ net = [monotone |-> FALSE, mtu |-> 0]

MonoInit == InitRun /\ net \in [monotone : {TRUE}, mtu : MtuInputs]

-----------------------------------------------------------------------------
(* Actions.                                                                *)

\* lines 273-287: argument validation, then the results dict
Validate ==
    /\ pc = "start"
    /\ IF ~ValidMaxRange(params.max_range)
       THEN /\ output' = fail_json([msg |-> MsgMaxRange(params.max_range)])
            /\ pc' = "exit"
            /\ UNCHANGED results
       ELSE IF InvalidMaxSize(params.max_size)
       THEN /\ output' = fail_json([msg |-> MsgMaxSize(params.max_size)])
            /\ pc' = "exit"
            /\ UNCHANGED results
       ELSE /\ results' = [changed |-> FALSE, failed |-> TRUE, inet_mtu |-> 0,
                           dest |-> params.dest]
            /\ pc' = "baseline"
            /\ UNCHANGED output
    /\ UNCHANGED <<params, net, test_size, step, min_test_size, probes>>

\* lines 287-298: the baseline ping, then the search's initial state
Baseline ==
    /\ pc = "baseline"
    /\ LET size == PayloadSize(INET_MIN_MTU_SIZE)
       IN  \E rate_info \in PingOutputs(size, FALSE) :
           LET reachability_results == run_ping(size, FALSE, rate_info)
               loss == reachability_results.loss
           IN
             /\ probes' = Append(probes, reachability_results)
             /\ IF BaselineFailed(loss)
                THEN /\ results' = [msg |-> MsgConnectivity(params.dest)] @@ results
                     /\ output' = exit_json(results')
                     /\ pc' = "exit"
                     /\ UNCHANGED <<test_size, step, min_test_size>>
                ELSE /\ test_size' = params.max_size
                     /\ step' = params.max_range
                     /\ min_test_size' = MinTestSize(params.max_size, params.max_range)
                     /\ pc' = "search"
                     /\ UNCHANGED <<results, output>>
    /\ UNCHANGED <<params, net>>

\* lines 300-322: one iteration of the while loop
SearchIter ==
    /\ pc = "search"
    /\ LET t == Clamp(test_size, params.max_size)
           s == HalveStep(step)
           size == PayloadSize(t)
       IN  \E rate_info \in PingOutputs(size, TRUE) :
           LET current_results == run_ping(size, TRUE, rate_info)
               loss == current_results.loss
           IN
             /\ probes' = Append(probes, current_results)
             /\ step' = s
             /\ IF StopAtMax(loss, t, params.max_size)
                THEN /\ results' = [results EXCEPT !.failed = FALSE, !.inet_mtu = t]
                     /\ test_size' = t
                     /\ pc' = "result"
                ELSE IF Reachable(loss)
                THEN /\ results' = [results EXCEPT !.failed = FALSE, !.inet_mtu = t]
                     /\ test_size' = Increase(t, s)
                     /\ pc' = IF s < 1 THEN "result" ELSE "search"
                ELSE /\ test_size' = Decrease(t, s)
                     /\ pc' = IF s < 1 THEN "result" ELSE "search"
                     /\ UNCHANGED results
    /\ UNCHANGED <<params, net, min_test_size, output>>

\* lines 324-333
Result ==
    /\ pc = "result"
    /\ IF Get(results, "inet_mtu", 0) = 0
       THEN output' = fail_json([msg |-> MsgTooSmall(params.dest, min_test_size,
                                                     params.max_size, params.max_range)]
                                @@ results)
       ELSE output' = exit_json(results)
    /\ pc' = "exit"
    /\ UNCHANGED <<params, net, results, test_size, step, min_test_size, probes>>

Next == Validate \/ Baseline \/ SearchIter \/ Result

\* every sequence of probe outcomes
Spec == Init /\ [][Next]_vars

\* the same, and main() keeps running until it exits
FairSpec == Spec /\ WF_vars(Next)

\* monotone reachability: a DF ping gets through exactly up to net.mtu
MonoSpec == MonoInit /\ [][Next]_vars

-----------------------------------------------------------------------------
(* Vocabulary of the properties.                                           *)

Min(a, b) == IF a <= b THEN a ELSE b

\* the inputs pass validation: max_size in [68, 65496], max_range in 0, 2, 4, ..., 65536
InputsValid ==
    /\ params.max_size >= 68 /\ params.max_size <= 65496
    /\ \E x \in 0..16 : params.max_range = (IF x = 0 THEN 0 ELSE 2^x)

\* max(68, max_size - max_range + 1)
StatedMinTestSize ==
    IF params.max_size - params.max_range + 1 > 68
    THEN params.max_size - params.max_range + 1 ELSE 68

\* the IPv4 packet size of the i-th ping
PacketSize(i) == probes[i].size + 28

\* the i-th ping is a DF search probe that got through
Confirmed(i) == probes[i].df_bit /\ probes[i].loss < 100

ConfirmedSizes == {PacketSize(i) : i \in {j \in DOMAIN probes : Confirmed(j)}}

\* the largest confirmed size, 0 if none
LargestConfirmed ==
    IF ConfirmedSizes = {} THEN 0
    ELSE CHOOSE m \in ConfirmedSizes : \A n \in ConfirmedSizes : n <= m

Exited == pc = "exit"

\* ceil(log2(n)) for n >= 1
CeilLog2(n) == CHOOSE k \in 0..17 : 2^k >= n /\ (k = 0 \/ 2^(k - 1) < n)

-----------------------------------------------------------------------------
(* C1 .. C10                                                               *)

\* C1: on a monotone path with threshold M >= max(68, max_size - max_range + 1),
\* the run ends with failed = false and inet_mtu = min(M, max_size).
C1_ExactPathMtu ==
    (Exited /\ InputsValid /\ net.mtu >= StatedMinTestSize)
        => /\ Get(output, "failed", TRUE) = FALSE
           /\ Get(output, "inet_mtu", 0) = Min(net.mtu, params.max_size)

\* a run that needed the whole search to corner a threshold below max_size
C1_Witness ==
    /\ Exited /\ InputsValid
    /\ params.max_size - params.max_range + 1 > 68
    /\ net.mtu >= StatedMinTestSize /\ net.mtu < params.max_size
    /\ Len(probes) >= 5
    /\ Get(output, "inet_mtu", 0) = net.mtu

\* C2: on a monotone path with threshold M < max(68, max_size - max_range + 1),
\* for every allowed max_range including 0, the run reports the failure
\* 'less than the minimum tested size' with inet_mtu = 0.
C2_TooSmallReported ==
    (Exited /\ InputsValid /\ net.mtu < StatedMinTestSize)
        => /\ Get(output, "failed", FALSE) = TRUE
           /\ Get(output, "inet_mtu", 0) = 0
           /\ "msg" \in DOMAIN output
           /\ output.msg.text = "The MTU of the path is less than the minimum tested size"

\* C3: for valid max_size and max_range a power of two in [2, 65536], every run
\* terminates and issues at most ceil(log2(max_range)) + 2 pings.
C3_ProbeBound ==
    /\ []((InputsValid /\ params.max_range >= 2)
            => Len(probes) <= CeilLog2(params.max_range) + 2)
    /\ ((InputsValid /\ params.max_range >= 2) ~> Exited)

\* a run that used the whole budget
C3_Witness ==
    /\ Exited /\ InputsValid /\ params.max_range >= 8
    /\ params.max_size - params.max_range + 1 >= 68
    /\ Len(probes) = CeilLog2(params.max_range) + 2

\* C4: if any DF probe at size S got through, the inet_mtu reported at the end
\* of the run is >= S.
C4_FinalNotBelowConfirmed ==
    Exited => \A i \in DOMAIN probes :
                 Confirmed(i) => Get(output, "inet_mtu", 0) >= PacketSize(i)

\* C5: a baseline ping with 100% loss ends the run with failed = true,
\* inet_mtu = 0 and the connectivity message, after exactly one ping.
C5_BaselineFailure ==
    (Len(probes) >= 1 /\ probes[1].loss = 100)
        => /\ Len(probes) = 1
           /\ Exited
           /\ Get(output, "failed", FALSE) = TRUE
           /\ Get(output, "inet_mtu", -1) = 0
           /\ "msg" \in DOMAIN output
           /\ output.msg.text = "Basic connectivity failed."

C5_Witness == Exited /\ Len(probes) = 1 /\ probes[1].loss = 100

\* C6: the packet size of every ping, baseline or DF, is within [68, max_size].
C6_ProbeSizeClamped ==
    \A i \in DOMAIN probes :
        PacketSize(i) >= 68 /\ PacketSize(i) <= params.max_size

\* both clamps acted: a failed probe sent test_size below 68, a later success
\* sent it above max_size
C6_Witness ==
    /\ Len(probes) >= 4
    /\ probes[2].loss = 100
    /\ params.max_size - params.max_range \div 2 < 68
    /\ PacketSize(3) = 68
    /\ Confirmed(3)
    /\ 68 + params.max_range \div 4 > params.max_size
    /\ PacketSize(4) = params.max_size

\* C7: at the end of a run that passed validation, failed = false exactly when
\* inet_mtu > 0, exactly when some DF probe got through; a failure has a msg.
C7_ResultContract ==
    (Exited /\ InputsValid)
        => /\ (Get(output, "failed", TRUE) = FALSE) <=> (Get(output, "inet_mtu", 0) > 0)
           /\ (Get(output, "inet_mtu", 0) > 0) <=> (ConfirmedSizes # {})
           /\ Get(output, "failed", TRUE) = TRUE => "msg" \in DOMAIN output

\* the baseline passed and every DF probe was lost
C7_Witness ==
    /\ Exited /\ InputsValid /\ Len(probes) >= 4
    /\ params.max_size - params.max_range + 1 >= 68
    /\ probes[1].loss < 100
    /\ ConfirmedSizes = {}
    /\ Get(output, "failed", FALSE) = TRUE

\* C8: a DF probe at max_size that gets through is the last ping of the run,
\* and the result is failed = false with inet_mtu = max_size.
C8_StopAtMaxSize ==
    \A i \in DOMAIN probes :
        (Confirmed(i) /\ PacketSize(i) = params.max_size)
            => /\ i = Len(probes)
               /\ pc \in {"result", "exit"}
               /\ results.failed = FALSE
               /\ results.inet_mtu = params.max_size
               /\ Exited => /\ output.failed = FALSE
                            /\ output.inet_mtu = params.max_size

\* max_size got through in a later iteration, reached through clamping
C8_Witness ==
    /\ Exited /\ Len(probes) >= 4
    /\ Confirmed(Len(probes) - 1)
    /\ PacketSize(Len(probes) - 1) < params.max_size
    /\ Confirmed(Len(probes))
    /\ PacketSize(Len(probes)) = params.max_size
    /\ output.inet_mtu = params.max_size

\* C9: with max_size outside [68, 65496] or max_range not one of 0, 2, 4, ...,
\* 65536, the run fails with a configuration error and no ping is ever issued.
C9_ConfigErrorBeforeProbe ==
    ~InputsValid
        => /\ probes = <<>>
           /\ pc \in {"start", "exit"}
           /\ Exited => /\ output.failed = TRUE
                        /\ output.msg.text \in
                             {"The value of the max_size option must be between",
                              "value of max_range must be one of"}

C9_Witness ==
    /\ Exited /\ output.failed = TRUE /\ probes = <<>>
    /\ params.max_size > 65496 /\ params.max_range = 32

\* C10: at every point of the search, inet_mtu equals the largest size at which
\* a DF probe has got through so far (0 if none).
C10_MtuIsLargestConfirmed ==
    pc \in {"search", "result", "exit"} /\ InputsValid
        => Get(results, "inet_mtu", 0) = LargestConfirmed

-----------------------------------------------------------------------------
(* C11 .. C16                                                              *)

\* the ping just issued by a step, and its IPv4 packet size
LastProbe == probes[Len(probes)]
LastPacketSize == PacketSize(Len(probes))

\* a step of the search loop: it issues one ping
SearchStep == pc = "search" /\ Len(probes') = Len(probes) + 1

\* test_size brought into [68, max_size]
ClampedTestSize ==
    IF test_size < 68 THEN 68
    ELSE IF test_size > params.max_size THEN params.max_size
    ELSE test_size

\* C11: every DF search probe is sent at a size >= max(68, max_size -
\* max_range + 1), the minimum tested size the failure message names, for
\* every allowed max_range including 0.
C11_ProbeNotBelowMinTestSize ==
    \A i \in DOMAIN probes :
        probes[i].df_bit
            => /\ min_test_size = StatedMinTestSize
               /\ PacketSize(i) >= StatedMinTestSize

\* C12: a DF probe at size t that is followed by another probe is followed by
\* a larger one if it got through and by a smaller one if it was lost, also
\* when test_size is clamped at 68 or at max_size.
C12_SearchDirection ==
    \A i \in 2..(Len(probes) - 1) :
        /\ Confirmed(i) => PacketSize(i + 1) > PacketSize(i)
        /\ probes[i].loss = 100 => PacketSize(i + 1) < PacketSize(i)

\* C12 amended: the next probe is larger after a success; after a loss it is
\* smaller when t > 68, and again at 68 when t = 68.
C12_SearchDirectionAbove68 ==
    \A i \in 2..(Len(probes) - 1) :
        /\ Confirmed(i) => PacketSize(i + 1) > PacketSize(i)
        /\ probes[i].loss = 100
             => IF PacketSize(i) > 68
                THEN PacketSize(i + 1) < PacketSize(i)
                ELSE PacketSize(i + 1) = 68

\* a loss at 68 followed by 68 again, and a success followed by max_size
\* reached through the upper clamp
C12_Witness ==
    \E i, j \in 2..(Len(probes) - 1) :
        /\ probes[i].loss = 100 /\ PacketSize(i) = 68 /\ PacketSize(i + 1) = 68
        /\ Confirmed(j) /\ PacketSize(j + 1) = params.max_size
        /\ PacketSize(j) + params.max_range \div 2^(j - 1) > params.max_size

\* C13: step is never negative and never increases; each iteration replaces it
\* by step // 2 if step >= 2 and by 0 otherwise, then probes; the loop ends
\* exactly at the first iteration whose halved step is < 1 or whose probe
\* gets through at max_size.
C13_StepHalving ==
    /\ [](step >= 0)
    /\ [][pc = "search"
            => /\ step' = (IF step >= 2 THEN step \div 2 ELSE 0)
               /\ step' <= step
               /\ Len(probes') = Len(probes) + 1
               /\ (pc' # "search")
                    <=> \/ step' < 1
                        \/ /\ LastProbe'.loss < 100
                           /\ LastProbe'.size + 28 = params.max_size]_vars

\* the loop ended in the iteration that took step from 1 to 0, after its probe
C13_Witness ==
    /\ pc = "result" /\ step = 0
    /\ params.max_range >= 8
    /\ params.max_size - params.max_range + 1 >= 68
    /\ Len(probes) = CeilLog2(params.max_range) + 2
    /\ ~(Confirmed(Len(probes)) /\ LastPacketSize = params.max_size)

\* C14: the first ping is the baseline with payload 40 and DF unset; every
\* later ping has DF set and payload test_size - 28, the first of them at
\* max_size; no DF probe is issued unless the baseline had loss < 100.
C14_ProbeOrder ==
    /\ [](/\ Len(probes) >= 1 => probes[1].size = 40 /\ ~probes[1].df_bit
          /\ Len(probes) >= 2 => /\ probes[1].loss < 100
                                 /\ probes[2].size = params.max_size - 28
          /\ \A i \in 2..Len(probes) : probes[i].df_bit)
    /\ [][SearchStep => LastProbe'.size = ClampedTestSize - 28]_vars

C14_Witness ==
    /\ Len(probes) >= 4
    /\ params.max_size > 68
    /\ probes[2].size = params.max_size - 28
    /\ probes[4].size # probes[3].size

\* C15: a DF probe with loss 100 leaves inet_mtu and failed unchanged; one with
\* loss < 100 sets inet_mtu to the size just probed and failed to false; so
\* inet_mtu is 0 or a size in [68, max_size] at which a DF probe got through.
C15_ResultOnlyOnSuccess ==
    /\ [](pc \in {"baseline", "search", "result"}
            => \/ results.inet_mtu = 0 /\ results.failed = TRUE
               \/ /\ results.inet_mtu \in ConfirmedSizes
                  /\ results.inet_mtu >= 68
                  /\ results.inet_mtu <= params.max_size
                  /\ results.failed = FALSE)
    /\ [][SearchStep
            => IF LastProbe'.loss = 100
               THEN /\ results'.inet_mtu = results.inet_mtu
                    /\ results'.failed = results.failed
               ELSE /\ results'.inet_mtu = LastProbe'.size + 28
                    /\ results'.failed = FALSE]_vars

\* a success, then lost probes that left the result alone
C15_Witness ==
    /\ Len(probes) >= 5
    /\ Confirmed(Len(probes) - 2)
    /\ probes[Len(probes) - 1].loss = 100
    /\ LastProbe.loss = 100
    /\ results.inet_mtu = PacketSize(Len(probes) - 2)

=============================================================================
